---- MODULE Spec2Model ----
(***************************************************************************)
(* The payment-notification pipeline of design_patterns_in_python in its   *)
(* four variants:                                                          *)
(*   initial_code.PaymentProcessor           (dict records)                *)
(*   refactoring_code.PaymentService         (dict records)                *)
(*   open_close/after.PaymentService         (pydantic records)            *)
(*   liskov_substitution/after.PaymentService (pydantic records)           *)
(* One run of process_transaction is followed step by step (validate,      *)
(* charge, notify, log, done).  The gateway, the SMTP relay, the Twilio    *)
(* service and the log file are the environment: each of their calls       *)
(* either succeeds or raises, chosen nondeterministically.                 *)
(* SpecLog follows log calls made side by side, statement by statement,   *)
(* with the buffer of the file object each of them holds.                  *)
(***************************************************************************)
EXTENDS Integers, Sequences, FiniteSets, TLC

VARIABLES
    variant,        \* which module's pipeline the current run belongs to
    notifier,       \* class variants: the notifier injected at construction
    customer_data,  \* the customer record handed to process_transaction
    payment_data,   \* the payment record handed to process_transaction
    pc,             \* position of the current run
    charge,         \* the local variable `charge` of process_transaction
    result,         \* what the caller of process_transaction gets
    charges,        \* stripe.Charge.create calls of this run (their arguments)
    emails,         \* email helper calls of this run (their To address)
    smss,           \* SMS helper calls of this run (their destination)
    smtpOps,        \* calls made on smtplib of this run, in order
    twilioOps,      \* calls made on twilio of this run, in order
    notified,       \* outcome of the notification step of this run
    logAppends,     \* log calls of this run that wrote their record
    log,            \* content of transactions.log, one string per line
    log0,           \* content of transactions.log when this run started
    logOps,         \* calls made on the log file of this run, in order
    printed,        \* console messages of this run
    runs,           \* number of runs started so far
    writers,        \* log calls made side by side: position, buffer, lines
    firstRun        \* what the caller kept of the first of two compared runs

vars == <<variant, notifier, customer_data, payment_data, pc, charge, result,
          charges, emails, smss, smtpOps, twilioOps, notified, logAppends,
          log, log0, logOps, printed, runs, writers, firstRun>>

-----------------------------------------------------------------------------
(* Bounds *)

MaxRuns == 2

\* Log calls that may be in progress side by side.
MaxWriters == 2

-----------------------------------------------------------------------------
(* Values *)

None == "None"                       \* Python None in an Optional[str] field
Unbound == [status |-> "<unbound>"]  \* `charge` before its assignment

DictVariants  == {"initial_code", "refactoring_code"}
ClassVariants == {"open_close", "liskov_substitution"}
Notifiers     == {"EmailNotifier", "SMSNotifier"}

Names    == {"", "Jane Doe"}
Emails   == {"", "jane@example.com"}
Phones   == {"", "+5491138089556"}
Amounts  == {-1, 0, 1500}
Sources  == {"", "tok_visa"}
Statuses == {"succeeded", "pending"}

\* The empty dict {}.
EmptyDict == [k \in {} |-> ""]

\* contact_info dicts: every subset of the keys email and phone, each with an
\* empty or a non-empty value, and a dict that has only another key.
ContactDicts ==
    {EmptyDict, [address |-> "123 Main St"]}
      \cup {[email |-> e] : e \in Emails}
      \cup {[phone |-> p] : p \in Phones}
      \cup {[email |-> e, phone |-> p] : e \in Emails, p \in Phones}

\* customer records: name and contact_info each present or absent.
CustomerInputs ==
    {EmptyDict}
      \cup {[name |-> n] : n \in Names}
      \cup {[contact_info |-> c] : c \in ContactDicts}
      \cup {[name |-> n, contact_info |-> c] : n \in Names, c \in ContactDicts}

\* payment records: amount and source each present or absent.
PaymentInputs ==
    {EmptyDict}
      \cup {[amount |-> a] : a \in Amounts}
      \cup {[source |-> s] : s \in Sources}
      \cup {[amount |-> a, source |-> s] : a \in Amounts, s \in Sources}

\* Outcomes of the environment.
GatewayOutcomes == Statuses \cup {"StripeError"}
SmtpSteps       == <<"SMTP", "starttls", "login", "sendmail", "quit">>
SmtpFailures    == {"none", "SMTP", "starttls", "login", "sendmail", "quit"}
TwilioFailures  == {"none", "Client", "create"}
LogOutcomes     == {"ok", "OSError"}      \* OSError: open(...) raises

\* The caller's view of a run.
Pending          == [kind |-> "pending", exc |-> "", charge |-> Unbound]
ReturnNone       == [kind |-> "return_None", exc |-> "", charge |-> Unbound]
ReturnCharge(c)  == [kind |-> "return_charge", exc |-> "", charge |-> c]
Raise(e)         == [kind |-> "raise", exc |-> e, charge |-> Unbound]

-----------------------------------------------------------------------------
(* Python helpers *)

Has(d, k) == k \in DOMAIN d

\* bool(s) of a string or None
Truthy(s) == s # "" /\ s # None

\* bool(d.get(k)) for a dict of strings
GetTruthy(d, k) == Has(d, k) /\ Truthy(d[k])

\* bool(d.get(k)) when d[k] is itself a dict
GetDictTruthy(d, k) == Has(d, k) /\ DOMAIN d[k] # {}

-----------------------------------------------------------------------------
(* The environment: SMTP relay and Twilio *)

\* SmtpCalls with login called before starttls
SmtpCalls_LoginFirst(f) ==
    LET order == <<"SMTP", "login", "starttls", "sendmail", "quit">>
        k == IF f = "none" THEN Len(order)
             ELSE CHOOSE i \in 1..Len(order) : order[i] = f
    IN  [i \in 1..k |-> <<order[i], IF order[i] = f THEN "raised" ELSE "ok">>]

\* The smtplib calls made by an email helper whose call `f` raises ("none":
\* no call raises): every call up to and including the one that raises.
SmtpCalls(f) ==
    LET k == IF f = "none" THEN Len(SmtpSteps)
             ELSE CHOOSE i \in 1..Len(SmtpSteps) : SmtpSteps[i] = f
    IN  [i \in 1..k |-> <<SmtpSteps[i], IF SmtpSteps[i] = f THEN "raised" ELSE "ok">>]

\* The twilio calls made by an SMS helper whose call `f` raises.
TwilioCalls(f) ==
    IF f = "Client" THEN << <<"Client", "raised">> >>
    ELSE << <<"Client", "ok">>,
            <<"create", IF f = "create" THEN "raised" ELSE "ok">> >>

\* The calls made on transactions.log by one log call (`with open(..., "a")`
\* and two writes) when open raises (o = "OSError") or nothing raises.
LogFileCalls(o) ==
    IF o = "OSError" THEN << <<"open", "raised">> >>
    ELSE << <<"open", "ok">>, <<"write", "ok">>, <<"write", "ok">>,
            <<"close", "ok">> >>

-----------------------------------------------------------------------------
(* The text file object returned by open("transactions.log", "a").          *)

\* open() is called without `buffering`: the file object collects what is
\* written and hands it to the operating system when more than this many
\* bytes are pending, and when the file is closed.
DEFAULT_BUFFER_SIZE == 8192

RECURSIVE Repeat(_, _)
Repeat(s, n) ==
    IF n = 0 THEN ""
    ELSE IF n % 2 = 1 THEN s \o Repeat(s, n - 1)
    ELSE LET half == Repeat(s, n \div 2) IN half \o half

\* `name` is a str of any length; one that alone fills the buffer
LongName == Repeat("J", DEFAULT_BUFFER_SIZE)

RECURSIVE Bytes(_)
Bytes(lines) ==
    IF lines = <<>> THEN 0 ELSE Len(Head(lines)) + Bytes(Tail(lines))

Writers == 1..MaxWriters

\* A log call not yet made: nothing to write, nothing pending, nothing in
\* the file (`at`: the line numbers of transactions.log this call wrote).
IdleWriter == [pc |-> "idle", lines |-> <<>>, buffer |-> <<>>, at |-> <<>>]

-----------------------------------------------------------------------------
(* A caller starts a run with fresh records; the log file is kept.          *)

CanBegin == pc = "idle" /\ runs < MaxRuns

BeginRun(v, n, c, p, first) ==
    /\ runs' = runs + 1
    /\ variant' = v
    /\ notifier' = n
    /\ customer_data' = c
    /\ payment_data' = p
    /\ pc' = first
    /\ log0' = log
    /\ UNCHANGED <<charge, result, charges, emails, smss, smtpOps, twilioOps,
                   notified, logAppends, log, logOps, printed, writers,
                   firstRun>>

\* The caller is back from process_transaction (or from the failed
\* construction of a record): the records and everything observed of the
\* run are dropped, only transactions.log stays.
Returned ==
    /\ pc \in {"done", "rejected"}
    /\ pc' = "idle"
    /\ variant' = "none"
    /\ notifier' = "none"
    /\ customer_data' = EmptyDict
    /\ payment_data' = EmptyDict
    /\ charge' = Unbound
    /\ result' = Pending
    /\ charges' = <<>>
    /\ emails' = <<>>
    /\ smss' = <<>>
    /\ smtpOps' = <<>>
    /\ twilioOps' = <<>>
    /\ notified' = "not_run"
    /\ logAppends' = 0
    /\ printed' = <<>>
    /\ logOps' = <<>>
    /\ log0' = log
    /\ UNCHANGED <<log, runs, writers, firstRun>>

\* No run to compare with.
NoRun == [variant |-> "none"]

\* process_transaction ends: returns `res` or raises it.
EndRun(res, msgs) ==
    /\ pc' = "done"
    /\ result' = res
    /\ printed' = printed \o msgs

Inputs == <<variant, notifier, customer_data, payment_data, runs, log0,
            writers, firstRun>>

-----------------------------------------------------------------------------
(* initial_code.PaymentProcessor *)

Initial_start ==
    /\ CanBegin
    /\ \E c \in CustomerInputs, p \in PaymentInputs :
        BeginRun("initial_code", "none", c, p, "validate")

\* Initial_return handing the charge to the caller
Initial_return_Charge(ch) == ReturnCharge(ch)

\* lines 43-100: process_transaction has no return value; every `return`
\* and the end of the body give the caller None
Initial_return(ch) == ReturnNone

\* Initial_validate handing a valid request to the notification step
\* without the charge step
Initial_validate_SkipsCharge ==
    /\ pc = "validate" /\ variant = "initial_code"
    /\ IF ~GetTruthy(customer_data, "name")
         THEN EndRun(Initial_return(charge), <<"Invalid customer data: missing name">>)
       ELSE IF ~GetDictTruthy(customer_data, "contact_info")
         THEN EndRun(Initial_return(charge), <<"Invalid customer data: missing contact info">>)
       ELSE IF ~GetTruthy(payment_data, "source")
         THEN EndRun(Initial_return(charge), <<"Invalid payment data">>)
       ELSE pc' = "notify" /\ UNCHANGED <<result, printed>>
    /\ UNCHANGED <<Inputs, charge, charges, emails, smss, smtpOps, twilioOps,
                   notified, logAppends, log, logOps>>

\* lines 60-72: the three checks, each printing and returning
Initial_validate ==
    /\ pc = "validate" /\ variant = "initial_code"
    /\ IF ~GetTruthy(customer_data, "name")
         THEN EndRun(Initial_return(charge), <<"Invalid customer data: missing name">>)
       ELSE IF ~GetDictTruthy(customer_data, "contact_info")
         THEN EndRun(Initial_return(charge), <<"Invalid customer data: missing contact info">>)
       ELSE IF ~GetTruthy(payment_data, "source")
         THEN EndRun(Initial_return(charge), <<"Invalid payment data">>)
       ELSE pc' = "charge" /\ UNCHANGED <<result, printed>>
    /\ UNCHANGED <<Inputs, charge, charges, emails, smss, smtpOps, twilioOps,
                   notified, logAppends, log, logOps>>

\* Initial_charge skipping the gateway when the log already has a payment
\* of this customer and amount
Initial_charge_Deduplicates ==
    /\ pc = "charge" /\ variant = "initial_code"
    /\ IF ~Has(payment_data, "amount") \/ ~Has(payment_data, "source")
         THEN /\ EndRun(Raise("KeyError"), <<>>)
              /\ UNCHANGED <<charge, charges>>
       ELSE IF \E i \in 1..Len(log) :
                  log[i] = customer_data["name"] \o " paid "
                             \o ToString(payment_data["amount"]) \o " cents\n"
         THEN /\ EndRun(Initial_return(charge), <<"Already paid">>)
              /\ UNCHANGED <<charge, charges>>
         ELSE /\ charges' = Append(charges, [amount |-> payment_data["amount"],
                                             source |-> payment_data["source"]])
              /\ \E o \in GatewayOutcomes :
                    IF o = "StripeError"
                      THEN /\ EndRun(Initial_return(charge), <<"Payment failed">>)
                           /\ UNCHANGED charge
                      ELSE /\ charge' = [status |-> o]
                           /\ pc' = "notify"
                           /\ printed' = Append(printed, "Payment successful")
                           /\ UNCHANGED result
    /\ UNCHANGED <<Inputs, emails, smss, smtpOps, twilioOps, notified,
                   logAppends, log, logOps>>

\* lines 74-88: stripe.Charge.create inside try/except StripeError.
\* payment_data["amount"] and payment_data["source"] are evaluated before
\* the call: a missing key raises KeyError, which the except clause does not
\* catch.
Initial_charge ==
    /\ pc = "charge" /\ variant = "initial_code"
    /\ IF ~Has(payment_data, "amount") \/ ~Has(payment_data, "source")
         THEN /\ EndRun(Raise("KeyError"), <<>>)
              /\ UNCHANGED <<charge, charges>>
         ELSE /\ charges' = Append(charges, [amount |-> payment_data["amount"],
                                             source |-> payment_data["source"]])
              /\ \E o \in GatewayOutcomes :
                    IF o = "StripeError"
                      THEN /\ EndRun(Initial_return(charge), <<"Payment failed">>)
                           /\ UNCHANGED charge
                      ELSE /\ charge' = [status |-> o]
                           /\ pc' = "notify"
                           /\ printed' = Append(printed, "Payment successful")
                           /\ UNCHANGED result
    /\ UNCHANGED <<Inputs, emails, smss, smtpOps, twilioOps, notified,
                   logAppends, log, logOps>>

\* Initial_send_email_notification with smtplib.SMTP(...) before the try
Initial_send_email_notification_ConnectOutsideTry(email, f) ==
    /\ emails' = Append(emails, email)
    /\ smtpOps' = smtpOps \o SmtpCalls(f)
    /\ IF f = "SMTP"
         THEN /\ notified' = "raised"
              /\ EndRun(Raise("Exception"), <<>>)
         ELSE /\ notified' = IF f = "none" THEN "sent" ELSE "failed"
              /\ printed' = Append(printed, IF f = "none" THEN "Email sent"
                                            ELSE "Error sending email")
              /\ pc' = "log"
              /\ UNCHANGED result
    /\ UNCHANGED <<smss, twilioOps>>

\* lines 102-130: every smtplib call is inside try/except Exception
Initial_send_email_notification(email, f) ==
    /\ emails' = Append(emails, email)
    /\ smtpOps' = smtpOps \o SmtpCalls(f)
    /\ notified' = IF f = "none" THEN "sent" ELSE "failed"
    /\ printed' = Append(printed, IF f = "none" THEN "Email sent"
                                  ELSE "Error sending email")
    /\ pc' = "log"
    /\ UNCHANGED <<result, smss, twilioOps>>

\* lines 132-155: Client(...) is built before the try; messages.create is
\* inside try/except Exception
Initial_send_sms_notification(phone, f) ==
    /\ smss' = Append(smss, phone)
    /\ twilioOps' = twilioOps \o TwilioCalls(f)
    /\ IF f = "Client"
         THEN /\ notified' = "raised"
              /\ EndRun(Raise("Exception"), <<>>)
         ELSE /\ notified' = IF f = "none" THEN "sent" ELSE "failed"
              /\ printed' = Append(printed, IF f = "none" THEN "SMS sent"
                                            ELSE "Error sending SMS")
              /\ pc' = "log"
              /\ UNCHANGED result
    /\ UNCHANGED <<emails, smtpOps>>

\* lines 90-97: the channel is picked by which KEY the dict has
Initial_notify ==
    /\ pc = "notify" /\ variant = "initial_code"
    /\ LET ci == customer_data["contact_info"] IN
       IF "email" \in DOMAIN ci
         THEN \E f \in SmtpFailures :
                 Initial_send_email_notification(ci["email"], f)
       ELSE IF "phone" \in DOMAIN ci
         THEN \E f \in TwilioFailures :
                 Initial_send_sms_notification(ci["phone"], f)
       ELSE /\ notified' = "no_contact"
            /\ EndRun(Initial_return(charge),
                      <<"No valid contact information for notification">>)
            /\ UNCHANGED <<emails, smss, smtpOps, twilioOps>>
    /\ UNCHANGED <<Inputs, charge, charges, logAppends, log, logOps>>

\* Initial_log_lines with the newline of the first line left out
Initial_log_lines_OneLine(customer, payment, ch) ==
    << customer["name"] \o " paid " \o ToString(payment["amount"]) \o " cents",
       "Payment status: " \o ch["status"] \o "\n" >>

\* lines 169-173: the two lines written by _log_transaction
Initial_log_lines(customer, payment, ch) ==
    << customer["name"] \o " paid " \o ToString(payment["amount"]) \o " cents\n",
       "Payment status: " \o ch["status"] \o "\n" >>

\* Initial_log_transaction with the file opened in mode "w"
Initial_log_transaction_WriteMode ==
    /\ pc = "log" /\ variant = "initial_code"
    /\ \E o \in LogOutcomes :
          /\ logOps' = logOps \o LogFileCalls(o)
          /\ IF o = "ok"
               THEN /\ log' = Initial_log_lines(customer_data, payment_data, charge)
                    /\ logAppends' = logAppends + 1
                    /\ EndRun(Initial_return(charge), <<>>)
               ELSE /\ EndRun(Raise("OSError"), <<>>)
                    /\ UNCHANGED <<log, logAppends>>
    /\ UNCHANGED <<Inputs, charge, charges, emails, smss, smtpOps, twilioOps,
                   notified>>

\* lines 99-100 and 157-173: append to transactions.log, then fall off
\* the end of process_transaction (None)
Initial_log_transaction ==
    /\ pc = "log" /\ variant = "initial_code"
    /\ \E o \in LogOutcomes :
          /\ logOps' = logOps \o LogFileCalls(o)
          /\ IF o = "ok"
               THEN /\ log' = log \o Initial_log_lines(customer_data, payment_data, charge)
                    /\ logAppends' = logAppends + 1
                    /\ EndRun(Initial_return(charge), <<>>)
               ELSE /\ EndRun(Raise("OSError"), <<>>)
                    /\ UNCHANGED <<log, logAppends>>
    /\ UNCHANGED <<Inputs, charge, charges, emails, smss, smtpOps, twilioOps,
                   notified>>

-----------------------------------------------------------------------------
(* refactoring_code.PaymentService *)

Refactoring_start ==
    /\ CanBegin
    /\ \E c \in CustomerInputs, p \in PaymentInputs :
        BeginRun("refactoring_code", "none", c, p, "validate")

\* ValidatedCustomerData.validate asking for an email or a phone as well
ValidatedCustomerData_validate_NeedsChannel(customer) ==
    IF ~GetTruthy(customer, "name")
      THEN "Customer data validation failed: Missing name."
    ELSE IF ~GetDictTruthy(customer, "contact_info")
      THEN "Customer data validation failed: Missing contact info."
    ELSE IF ~GetTruthy(customer["contact_info"], "email")
            /\ ~GetTruthy(customer["contact_info"], "phone")
      THEN "Customer data validation failed: Missing contact info."
    ELSE "ok"

\* ValidatedCustomerData_validate testing contact_info before name
ValidatedCustomerData_validate_ContactFirst(customer) ==
    IF ~GetDictTruthy(customer, "contact_info")
      THEN "Customer data validation failed: Missing contact info."
    ELSE IF ~GetTruthy(customer, "name")
      THEN "Customer data validation failed: Missing name."
    ELSE "ok"

\* lines 43-56: "ok", or the message of the ValueError raised
ValidatedCustomerData_validate(customer) ==
    IF ~GetTruthy(customer, "name")
      THEN "Customer data validation failed: Missing name."
    ELSE IF ~GetDictTruthy(customer, "contact_info")
      THEN "Customer data validation failed: Missing contact info."
    ELSE "ok"

\* ValidatedPaymentData.validate checking only that the key is there
ValidatedPaymentData_validate_KeyOnly(payment) ==
    IF ~Has(payment, "source")
      THEN "Payment data validation failed: Missing source."
    ELSE "ok"

\* lines 66-77: "ok", or the message of the ValueError raised
ValidatedPaymentData_validate(payment) ==
    IF ~GetTruthy(payment, "source")
      THEN "Payment data validation failed: Missing source."
    ELSE "ok"

\* lines 215-240: process_transaction has no return statement; on every path
\* that does not raise, the caller gets None.  `except Exception` (239-240)
\* prints and falls off the end as well.
Refactoring_return(ch) == ReturnNone

Refactoring_except(msg) ==
    EndRun(Refactoring_return(charge),
           <<"Transaction processing failed: " \o msg>>)

\* lines 226-228: both validators, inside the try of process_transaction
Refactoring_validate ==
    /\ pc = "validate" /\ variant = "refactoring_code"
    /\ LET v1 == ValidatedCustomerData_validate(customer_data)
           v2 == ValidatedPaymentData_validate(payment_data)
       IN  IF v1 # "ok" THEN Refactoring_except(v1)
           ELSE IF v2 # "ok" THEN Refactoring_except(v2)
           ELSE pc' = "charge" /\ UNCHANGED <<result, printed>>
    /\ UNCHANGED <<Inputs, charge, charges, emails, smss, smtpOps, twilioOps,
                   notified, logAppends, log, logOps>>

\* Refactoring_charge calling the gateway a second time after a StripeError
Refactoring_charge_Retries ==
    /\ pc = "charge" /\ variant = "refactoring_code"
    /\ IF ~Has(payment_data, "amount") \/ ~Has(payment_data, "source")
         THEN /\ Refactoring_except("KeyError")
              /\ UNCHANGED <<charge, charges>>
         ELSE LET call == [amount |-> payment_data["amount"],
                           source |-> payment_data["source"]] IN
              \E o \in GatewayOutcomes :
                    IF o = "StripeError"
                      THEN /\ charges' = charges \o <<call, call>>
                           /\ EndRun(Refactoring_return(charge),
                                     <<"Payment processing failed",
                                       "Transaction processing failed: StripeError">>)
                           /\ UNCHANGED charge
                      ELSE /\ charges' = Append(charges, call)
                           /\ charge' = [status |-> o]
                           /\ pc' = "notify"
                           /\ printed' = Append(printed, "Payment processed successfully.")
                           /\ UNCHANGED result
    /\ UNCHANGED <<Inputs, emails, smss, smtpOps, twilioOps, notified,
                   logAppends, log, logOps>>

\* line 229 and StripePaymentProcessor.process_transaction (172-200): the
\* StripeError is printed and re-raised, then caught by `except Exception`
\* of PaymentService.process_transaction; so is the KeyError of a missing
\* amount.
Refactoring_charge ==
    /\ pc = "charge" /\ variant = "refactoring_code"
    /\ IF ~Has(payment_data, "amount") \/ ~Has(payment_data, "source")
         THEN /\ Refactoring_except("KeyError")
              /\ UNCHANGED <<charge, charges>>
         ELSE /\ charges' = Append(charges, [amount |-> payment_data["amount"],
                                             source |-> payment_data["source"]])
              /\ \E o \in GatewayOutcomes :
                    IF o = "StripeError"
                      THEN /\ EndRun(Refactoring_return(charge),
                                     <<"Payment processing failed",
                                       "Transaction processing failed: StripeError">>)
                           /\ UNCHANGED charge
                      ELSE /\ charge' = [status |-> o]
                           /\ pc' = "notify"
                           /\ printed' = Append(printed, "Payment processed successfully.")
                           /\ UNCHANGED result
    /\ UNCHANGED <<Inputs, emails, smss, smtpOps, twilioOps, notified,
                   logAppends, log, logOps>>

\* lines 86-112
NotificationSender_send_email_notification(email, f) ==
    /\ emails' = Append(emails, email)
    /\ smtpOps' = smtpOps \o SmtpCalls(f)
    /\ notified' = IF f = "none" THEN "sent" ELSE "failed"
    /\ printed' = Append(printed, IF f = "none" THEN "Email successfully sent."
                                  ELSE "Error while sending email")
    /\ pc' = "log"
    /\ UNCHANGED <<result, smss, twilioOps>>

\* lines 114-137: Client(...) is built before the try
NotificationSender_send_sms_notification(phone, f) ==
    /\ smss' = Append(smss, phone)
    /\ twilioOps' = twilioOps \o TwilioCalls(f)
    /\ IF f = "Client"
         THEN /\ notified' = "raised"
              /\ Refactoring_except("Exception")
         ELSE /\ notified' = IF f = "none" THEN "sent" ELSE "failed"
              /\ printed' = Append(printed, IF f = "none" THEN "SMS successfully sent"
                                            ELSE "Error while sending SMS")
              /\ pc' = "log"
              /\ UNCHANGED result
    /\ UNCHANGED <<emails, smtpOps>>

\* Refactoring_notify returning when no channel applies, as initial_code does
Refactoring_notify_ReturnsEarly ==
    /\ pc = "notify" /\ variant = "refactoring_code"
    /\ LET ci == customer_data["contact_info"] IN
       IF GetTruthy(ci, "email")
         THEN \E f \in SmtpFailures :
                 NotificationSender_send_email_notification(ci["email"], f)
       ELSE IF GetTruthy(ci, "phone")
         THEN \E f \in TwilioFailures :
                 NotificationSender_send_sms_notification(ci["phone"], f)
       ELSE /\ notified' = "no_contact"
            /\ EndRun(Refactoring_return(charge),
                      <<"No valid contact info provided.">>)
            /\ UNCHANGED <<emails, smss, smtpOps, twilioOps>>
    /\ UNCHANGED <<Inputs, charge, charges, logAppends, log, logOps>>

\* lines 231-236: the channel is picked by which VALUE is truthy
Refactoring_notify ==
    /\ pc = "notify" /\ variant = "refactoring_code"
    /\ LET ci == customer_data["contact_info"] IN
       IF GetTruthy(ci, "email")
         THEN \E f \in SmtpFailures :
                 NotificationSender_send_email_notification(ci["email"], f)
       ELSE IF GetTruthy(ci, "phone")
         THEN \E f \in TwilioFailures :
                 NotificationSender_send_sms_notification(ci["phone"], f)
       ELSE /\ notified' = "no_contact"
            /\ printed' = Append(printed, "No valid contact info provided.")
            /\ pc' = "log"
            /\ UNCHANGED <<result, emails, smss, smtpOps, twilioOps>>
    /\ UNCHANGED <<Inputs, charge, charges, logAppends, log, logOps>>

\* lines 159-163: the two lines written by TransactionLogger.log_transaction
TransactionLogger_log_transaction(customer, payment, ch) ==
    << customer["name"] \o " paid " \o ToString(payment["amount"]) \o " cents\n",
       "Payment status: " \o ch["status"] \o "\n" >>

\* lines 238-240
Refactoring_log ==
    /\ pc = "log" /\ variant = "refactoring_code"
    /\ \E o \in LogOutcomes :
          /\ logOps' = logOps \o LogFileCalls(o)
          /\ IF o = "ok"
               THEN /\ log' = log \o TransactionLogger_log_transaction(
                                     customer_data, payment_data, charge)
                    /\ logAppends' = logAppends + 1
                    /\ EndRun(Refactoring_return(charge), <<>>)
               ELSE /\ Refactoring_except("OSError")
                    /\ UNCHANGED <<log, logAppends>>
    /\ UNCHANGED <<Inputs, charge, charges, emails, smss, smtpOps, twilioOps,
                   notified>>

-----------------------------------------------------------------------------
(* The pydantic records of the class-based variants *)

\* ContactInfo(**d): both fields default to None, other keys are ignored
ContactInfo(d) ==
    [email |-> IF Has(d, "email") THEN d["email"] ELSE None,
     phone |-> IF Has(d, "phone") THEN d["phone"] ELSE None]

\* Constructible with `source` declared Optional
Constructible_SourceOptional(c, p) ==
    /\ Has(c, "name") /\ Has(c, "contact_info")
    /\ Has(p, "amount")

\* CustomerData(**c) and PaymentData(**p) are built: no required field is
\* missing (otherwise pydantic raises its ValidationError, a ValueError)
Constructible(c, p) ==
    /\ Has(c, "name") /\ Has(c, "contact_info")
    /\ Has(p, "amount") /\ Has(p, "source")

CustomerData(c) ==
    [name |-> c["name"], contact_info |-> ContactInfo(c["contact_info"])]

\* The caller builds the records and the service, then calls
\* process_transaction; a record that cannot be built ends the caller before
\* the call.
ConstructAndCall(v) ==
    /\ CanBegin
    /\ \E c \in CustomerInputs, p \in PaymentInputs, n \in Notifiers :
        IF Constructible(c, p)
          THEN BeginRun(v, n, CustomerData(c), p, "charge")
          ELSE BeginRun(v, n, c, p, "rejected")

\* Class_charge going on to the notification after a StripeError
Class_charge_GoesOn(v) ==
    /\ pc = "charge" /\ variant = v
    /\ charges' = Append(charges, [amount |-> payment_data["amount"],
                                   source |-> payment_data["source"]])
    /\ \E o \in GatewayOutcomes :
          /\ charge' = IF o = "StripeError" THEN charge ELSE [status |-> o]
          /\ pc' = "notify"
          /\ printed' = Append(printed, IF o = "StripeError" THEN "Payment failed"
                                        ELSE "Payment successful")
          /\ UNCHANGED result
    /\ UNCHANGED <<Inputs, emails, smss, smtpOps, twilioOps, notified,
                   logAppends, log, logOps>>

\* StripePaymentProcessor.process_transaction of both class variants:
\* one stripe.Charge.create call; the StripeError is printed and re-raised,
\* and PaymentService.process_transaction re-raises it.
Class_charge(v) ==
    /\ pc = "charge" /\ variant = v
    /\ charges' = Append(charges, [amount |-> payment_data["amount"],
                                   source |-> payment_data["source"]])
    /\ \E o \in GatewayOutcomes :
          IF o = "StripeError"
            THEN /\ EndRun(Raise("StripeError"), <<"Payment failed">>)
                 /\ UNCHANGED charge
            ELSE /\ charge' = [status |-> o]
                 /\ pc' = "notify"
                 /\ printed' = Append(printed, "Payment successful")
                 /\ UNCHANGED result
    /\ UNCHANGED <<Inputs, emails, smss, smtpOps, twilioOps, notified,
                   logAppends, log, logOps>>

\* TransactionLogger.log of both class variants: the two lines written
Class_log_lines(customer, payment, ch) ==
    << customer["name"] \o " paid " \o ToString(payment["amount"]) \o "\n",
       "Payment status: " \o ch["status"] \o "\n" >>

-----------------------------------------------------------------------------
(* open_close/after.PaymentService *)

OpenClose_start == ConstructAndCall("open_close")

\* lines 200-226 and 252-255
OpenClose_charge == Class_charge("open_close")

\* lines 93-118: the exception is printed, not raised
OpenClose_EmailNotifier_send_confirmation(customer, f) ==
    /\ emails' = Append(emails, customer["contact_info"]["email"])
    /\ smtpOps' = smtpOps \o SmtpCalls(f)
    /\ notified' = IF f = "none" THEN "sent" ELSE "failed"
    /\ printed' = Append(printed, IF f = "none" THEN "Email successfully sent."
                                  ELSE "Error while sending email")
    /\ pc' = "log"
    /\ UNCHANGED <<result, smss, twilioOps>>

\* lines 126-150: Client(...) is built before the try; an exception of
\* messages.create is printed, not raised
OpenClose_SMSNotifier_send_confirmation(customer, f) ==
    /\ smss' = Append(smss, customer["contact_info"]["phone"])
    /\ twilioOps' = twilioOps \o TwilioCalls(f)
    /\ IF f = "Client"
         THEN /\ notified' = "raised"
              /\ EndRun(Raise("Exception"), <<>>)
         ELSE /\ notified' = IF f = "none" THEN "sent" ELSE "failed"
              /\ printed' = Append(printed, IF f = "none" THEN "SMS successfully sent"
                                            ELSE "Error while sending SMS")
              /\ pc' = "log"
              /\ UNCHANGED result
    /\ UNCHANGED <<emails, smtpOps>>

\* line 256: the injected notifier is called whatever the contact fields are
OpenClose_notify ==
    /\ pc = "notify" /\ variant = "open_close"
    /\ IF notifier = "EmailNotifier"
         THEN \E f \in SmtpFailures :
                 OpenClose_EmailNotifier_send_confirmation(customer_data, f)
         ELSE \E f \in TwilioFailures :
                 OpenClose_SMSNotifier_send_confirmation(customer_data, f)
    /\ UNCHANGED <<Inputs, charge, charges, logAppends, log, logOps>>

\* lines 159-171
OpenClose_TransactionLogger_log(customer, payment, ch) ==
    Class_log_lines(customer, payment, ch)

\* lines 257-260: log, then return charge; only StripeError is caught
OpenClose_log ==
    /\ pc = "log" /\ variant = "open_close"
    /\ \E o \in LogOutcomes :
          /\ logOps' = logOps \o LogFileCalls(o)
          /\ IF o = "ok"
               THEN /\ log' = log \o OpenClose_TransactionLogger_log(
                                     customer_data, payment_data, charge)
                    /\ logAppends' = logAppends + 1
                    /\ EndRun(ReturnCharge(charge), <<>>)
               ELSE /\ EndRun(Raise("OSError"), <<>>)
                    /\ UNCHANGED <<log, logAppends>>
    /\ UNCHANGED <<Inputs, charge, charges, emails, smss, smtpOps, twilioOps,
                   notified>>

-----------------------------------------------------------------------------
(* liskov_substitution/after.PaymentService *)

Liskov_start == ConstructAndCall("liskov_substitution")

\* lines 254-280 and 319-322
Liskov_charge == Class_charge("liskov_substitution")

\* Liskov_EmailNotifier_send_confirmation without its `raise e`
Liskov_EmailNotifier_send_confirmation_Swallows(customer, f) ==
    /\ emails' = Append(emails, customer["contact_info"]["email"])
    /\ smtpOps' = smtpOps \o SmtpCalls(f)
    /\ notified' = IF f = "none" THEN "sent" ELSE "failed"
    /\ printed' = Append(printed, IF f = "none" THEN "Email successfully sent."
                                  ELSE "Error while sending email")
    /\ pc' = "log"
    /\ UNCHANGED <<result, smss, twilioOps>>

\* lines 124-150: the exception is printed and re-raised
Liskov_EmailNotifier_send_confirmation(customer, f) ==
    /\ emails' = Append(emails, customer["contact_info"]["email"])
    /\ smtpOps' = smtpOps \o SmtpCalls(f)
    /\ IF f = "none"
         THEN /\ notified' = "sent"
              /\ printed' = Append(printed, "Email successfully sent.")
              /\ pc' = "log"
              /\ UNCHANGED result
         ELSE /\ notified' = "raised"
              /\ EndRun(Raise("Exception"), <<"Error while sending email">>)
    /\ UNCHANGED <<smss, twilioOps>>

\* Liskov_SMSNotifier_send_confirmation without the `raise e` of line 184
Liskov_SMSNotifier_send_confirmation_Swallows(customer, f) ==
    /\ smss' = Append(smss, customer["contact_info"]["phone"])
    /\ twilioOps' = twilioOps \o TwilioCalls(f)
    /\ IF f = "Client"
         THEN /\ notified' = "raised"
              /\ EndRun(Raise("Exception"), <<>>)
         ELSE /\ notified' = IF f = "none" THEN "sent" ELSE "failed"
              /\ printed' = Append(printed, IF f = "none"
                                            THEN "SMS successfully sent"
                                            ELSE "Error while sending SMS")
              /\ pc' = "log"
              /\ UNCHANGED result
    /\ UNCHANGED <<emails, smtpOps>>

\* lines 160-184: the exception is printed and re-raised
Liskov_SMSNotifier_send_confirmation(customer, f) ==
    /\ smss' = Append(smss, customer["contact_info"]["phone"])
    /\ twilioOps' = twilioOps \o TwilioCalls(f)
    /\ IF f = "none"
         THEN /\ notified' = "sent"
              /\ printed' = Append(printed, "SMS successfully sent")
              /\ pc' = "log"
              /\ UNCHANGED result
         ELSE /\ notified' = "raised"
              /\ EndRun(Raise("Exception"),
                        IF f = "create" THEN <<"Error while sending SMS">>
                        ELSE <<>>)
    /\ UNCHANGED <<emails, smtpOps>>

\* line 323: an exception of the notifier is not a StripeError, so the
\* try/except of process_transaction (319-327) lets it through
Liskov_notify ==
    /\ pc = "notify" /\ variant = "liskov_substitution"
    /\ IF notifier = "EmailNotifier"
         THEN \E f \in SmtpFailures :
                 Liskov_EmailNotifier_send_confirmation(customer_data, f)
         ELSE \E f \in TwilioFailures :
                 Liskov_SMSNotifier_send_confirmation(customer_data, f)
    /\ UNCHANGED <<Inputs, charge, charges, logAppends, log, logOps>>

\* lines 201-213
Liskov_TransactionLogger_log(customer, payment, ch) ==
    Class_log_lines(customer, payment, ch)

\* lines 324-327
Liskov_log ==
    /\ pc = "log" /\ variant = "liskov_substitution"
    /\ \E o \in LogOutcomes :
          /\ logOps' = logOps \o LogFileCalls(o)
          /\ IF o = "ok"
               THEN /\ log' = log \o Liskov_TransactionLogger_log(
                                     customer_data, payment_data, charge)
                    /\ logAppends' = logAppends + 1
                    /\ EndRun(ReturnCharge(charge), <<>>)
               ELSE /\ EndRun(Raise("OSError"), <<>>)
                    /\ UNCHANGED <<log, logAppends>>
    /\ UNCHANGED <<Inputs, charge, charges, emails, smss, smtpOps, twilioOps,
                   notified>>

-----------------------------------------------------------------------------

Init ==
    /\ variant = "none"
    /\ notifier = "none"
    /\ customer_data = EmptyDict
    /\ payment_data = EmptyDict
    /\ pc = "idle"
    /\ charge = Unbound
    /\ result = Pending
    /\ charges = <<>>
    /\ emails = <<>>
    /\ smss = <<>>
    /\ smtpOps = <<>>
    /\ twilioOps = <<>>
    /\ notified = "not_run"
    /\ logAppends = 0
    /\ log = <<>>
    /\ log0 = <<>>
    /\ logOps = <<>>
    /\ printed = <<>>
    /\ runs = 0
    /\ writers = [w \in Writers |-> IdleWriter]
    /\ firstRun = NoRun

Next ==
    \/ Returned
    \/ Initial_start
    \/ Initial_validate
    \/ Initial_charge
    \/ Initial_notify
    \/ Initial_log_transaction
    \/ Refactoring_start
    \/ Refactoring_validate
    \/ Refactoring_charge
    \/ Refactoring_notify
    \/ Refactoring_log
    \/ OpenClose_start
    \/ OpenClose_charge
    \/ OpenClose_notify
    \/ OpenClose_log
    \/ Liskov_start
    \/ Liskov_charge
    \/ Liskov_notify
    \/ Liskov_log

Spec == Init /\ [][Next]_vars

-----------------------------------------------------------------------------
(* Log calls of transactions submitted side by side by the surrounding      *)
(* application: each call is `with open("transactions.log", "a")`, two      *)
(* writes and the close at the end of the with block; nothing in the        *)
(* sources orders one call's statements against another call's.             *)

LogVariants == DictVariants \cup ClassVariants
LogNames    == {"Jane Doe", LongName}

\* the two lines the log function of variant v writes
LogLines(v, customer, payment, ch) ==
    CASE v = "initial_code" -> Initial_log_lines(customer, payment, ch)
      [] v = "refactoring_code" ->
             TransactionLogger_log_transaction(customer, payment, ch)
      [] v = "open_close" ->
             OpenClose_TransactionLogger_log(customer, payment, ch)
      [] v = "liskov_substitution" ->
             Liskov_TransactionLogger_log(customer, payment, ch)

\* everything but the log file and the log calls
RunState == <<variant, notifier, customer_data, payment_data, pc, charge,
              result, charges, emails, smss, smtpOps, twilioOps, notified,
              logAppends, log0, logOps, printed, runs, firstRun>>

\* the log function is called with a customer, a payment and a charge
Log_enter(w) ==
    /\ writers[w].pc = "idle"
    /\ \E v \in LogVariants, n \in LogNames :
          writers' = [writers EXCEPT ![w] =
              [pc |-> "entered",
               lines |-> LogLines(v, [name |-> n], [amount |-> 1500],
                                  [status |-> "succeeded"]),
               buffer |-> <<>>,
               at |-> <<>>]]
    /\ UNCHANGED <<log, RunState>>

\* open("transactions.log", "a"): a file object with an empty buffer, or
\* OSError
Log_open(w) ==
    /\ writers[w].pc = "entered"
    /\ \E o \in LogOutcomes :
          writers' = [writers EXCEPT
              ![w].pc = IF o = "ok" THEN "opened" ELSE "raised"]
    /\ UNCHANGED <<log, RunState>>

\* The pending bytes of call w go to the file in one write of the
\* operating system, which appends them (mode "a") behind whatever the
\* file holds at that moment.
Flush(w, pending, to) ==
    /\ log' = log \o pending
    /\ writers' = [writers EXCEPT
          ![w].pc = to,
          ![w].buffer = <<>>,
          ![w].at = @ \o [i \in 1..Len(pending) |-> Len(log) + i]]

\* log_file.write(line): the line joins the pending bytes; they are
\* flushed when they exceed the buffer
Write(w, line, to) ==
    LET pending == Append(writers[w].buffer, line) IN
    IF Bytes(pending) > DEFAULT_BUFFER_SIZE
      THEN Flush(w, pending, to)
      ELSE /\ writers' = [writers EXCEPT ![w].pc = to, ![w].buffer = pending]
           /\ UNCHANGED log

\* first write of the with block: "<name> paid <amount>..."
Log_write_paid(w) ==
    /\ writers[w].pc = "opened"
    /\ Write(w, writers[w].lines[1], "wrote_paid")
    /\ UNCHANGED RunState

\* second write of the with block: "Payment status: <status>"
Log_write_status(w) ==
    /\ writers[w].pc = "wrote_paid"
    /\ Write(w, writers[w].lines[2], "wrote_status")
    /\ UNCHANGED RunState

\* end of the with block: the file is closed, what is pending is flushed
Log_close(w) ==
    /\ writers[w].pc = "wrote_status"
    /\ Flush(w, writers[w].buffer, "closed")
    /\ UNCHANGED RunState

NextLog ==
    \E w \in Writers :
        \/ Log_enter(w)
        \/ Log_open(w)
        \/ Log_write_paid(w)
        \/ Log_write_status(w)
        \/ Log_close(w)

SpecLog == Init /\ [][NextLog]_vars

-----------------------------------------------------------------------------
(* A caller runs two implementations on the same records, one after the     *)
(* other, and keeps what the first did: initial_code.PaymentProcessor and   *)
(* then refactoring_code.PaymentService, or the liskov_substitution         *)
(* PaymentService with an EmailNotifier and then with an SMSNotifier.       *)

\* what the caller can observe of the run that has ended
RunOutcome ==
    [variant |-> variant, notifier |-> notifier,
     customer_data |-> customer_data, payment_data |-> payment_data,
     pc |-> pc, charge |-> charge, result |-> result, charges |-> charges,
     emails |-> emails, smss |-> smss, smtpOps |-> smtpOps,
     twilioOps |-> twilioOps, notified |-> notified,
     logAppends |-> logAppends, logOps |-> logOps]

\* PaymentProcessor().process_transaction(c, p) of initial_code
Pair_initial_call ==
    /\ pc = "idle" /\ runs = 0
    /\ \E c \in CustomerInputs, p \in PaymentInputs :
          BeginRun("initial_code", "none", c, p, "validate")

\* PaymentService(notifier=EmailNotifier()).process_transaction(
\* CustomerData(**c), PaymentData(**p)) of liskov_substitution
Pair_liskov_email_call ==
    /\ pc = "idle" /\ runs = 0
    /\ \E c \in CustomerInputs, p \in PaymentInputs :
          IF Constructible(c, p)
            THEN BeginRun("liskov_substitution", "EmailNotifier",
                          CustomerData(c), p, "charge")
            ELSE BeginRun("liskov_substitution", "EmailNotifier", c, p,
                          "rejected")

\* the first run is over: the caller keeps its outcome
Pair_returned ==
    /\ pc \in {"done", "rejected"} /\ firstRun = NoRun
    /\ firstRun' = RunOutcome
    /\ pc' = "idle"
    /\ variant' = "none"
    /\ notifier' = "none"
    /\ customer_data' = EmptyDict
    /\ payment_data' = EmptyDict
    /\ charge' = Unbound
    /\ result' = Pending
    /\ charges' = <<>>
    /\ emails' = <<>>
    /\ smss' = <<>>
    /\ smtpOps' = <<>>
    /\ twilioOps' = <<>>
    /\ notified' = "not_run"
    /\ logAppends' = 0
    /\ printed' = <<>>
    /\ logOps' = <<>>
    /\ log0' = log
    /\ UNCHANGED <<log, runs, writers>>

\* PaymentService().process_transaction of refactoring_code on the records
\* initial_code was run with
Pair_refactoring_call ==
    /\ pc = "idle" /\ runs = 1 /\ firstRun.variant = "initial_code"
    /\ BeginRun("refactoring_code", "none", firstRun.customer_data,
                firstRun.payment_data, "validate")

\* PaymentService(notifier=SMSNotifier()).process_transaction on the
\* records the service with the EmailNotifier was run with
Pair_liskov_sms_call ==
    /\ pc = "idle" /\ runs = 1 /\ firstRun.variant = "liskov_substitution"
    /\ BeginRun("liskov_substitution", "SMSNotifier", firstRun.customer_data,
                firstRun.payment_data,
                IF firstRun.pc = "rejected" THEN "rejected" ELSE "charge")

NextPair ==
    \/ Pair_initial_call
    \/ Pair_liskov_email_call
    \/ Pair_returned
    \/ Pair_refactoring_call
    \/ Pair_liskov_sms_call
    \/ Initial_validate
    \/ Initial_charge
    \/ Initial_notify
    \/ Initial_log_transaction
    \/ Refactoring_validate
    \/ Refactoring_charge
    \/ Refactoring_notify
    \/ Refactoring_log
    \/ Liskov_charge
    \/ Liskov_notify
    \/ Liskov_log

SpecPair == Init /\ [][NextPair]_vars

-----------------------------------------------------------------------------
(* Observations used by the properties *)

Done == pc = "done"

\* the gateway was called and the call succeeded / raised StripeError
ChargeSucceeded == Len(charges) = 1 /\ charge # Unbound
ChargeFailed    == Len(charges) = 1 /\ charge = Unbound

\* some call of the sequence of calls `ops` raised
Raised(ops) == \E i \in 1..Len(ops) : ops[i][2] = "raised"

\* the call `op` was made and raised
RaisedAt(ops, op) == \E i \in 1..Len(ops) : ops[i] = <<op, "raised">>

NoSend   == emails = <<>> /\ smss = <<>> /\ smtpOps = <<>> /\ twilioOps = <<>>
NoCharge == charges = <<>>
NoLog    == log = log0 /\ logAppends = 0 /\ logOps = <<>>

\* the run appended exactly the two lines `lines` to the log
Appended(lines) == log = log0 \o lines /\ logAppends = 1

\* a name / contact_info / source that is there and not empty (dict records)
NameGiven    == Has(customer_data, "name") /\ customer_data["name"] # ""
ContactGiven == Has(customer_data, "contact_info")
                  /\ DOMAIN customer_data["contact_info"] # {}
SourceGiven  == Has(payment_data, "source") /\ payment_data["source"] # ""
AmountGiven  == Has(payment_data, "amount")

\* the contact field k of the current customer is populated
Populated(k) ==
    /\ Has(customer_data, "contact_info")
    /\ Has(customer_data["contact_info"], k)
    /\ customer_data["contact_info"][k] \notin {"", None}

-----------------------------------------------------------------------------
(* C1 *)

\* C1: in the dict-based variants, a run whose customer name is absent or
\* empty, whose contact_info is absent or empty, or whose payment source is
\* absent or empty makes no charge call, no email or SMS send and no append
\* to the transaction log.
C1_InvalidInputHasNoEffect ==
    (variant \in DictVariants /\ ~(NameGiven /\ ContactGiven /\ SourceGiven))
        => NoCharge /\ NoSend /\ NoLog

\* a dict-based run ended on a payment record whose source is empty, the
\* customer record being complete
C1_Witness ==
    /\ Done /\ variant \in DictVariants
    /\ NameGiven /\ ContactGiven /\ AmountGiven
    /\ Has(payment_data, "source") /\ payment_data["source"] = ""

-----------------------------------------------------------------------------
(* C2 *)

\* process_transaction was entered with the current records
Entered == variant # "none" /\ pc # "rejected"

NeitherContact == ~Populated("email") /\ ~Populated("phone")

\* C2 as stated: a customer whose contact information carries neither an
\* email nor a phone is stopped in validation, so no charge call, no
\* notification send and no log append happen.
C2_NeitherContactAborts ==
    (Entered /\ NeitherContact) => NoCharge /\ NoSend /\ NoLog

\* C2 amended: validation stops a customer only when contact_info is absent or
\* empty (dict-based variants), and then nothing is charged, sent or logged;
\* a non-empty contact_info with neither an email nor a phone, and a
\* ContactInfo with both fields unset, pass: when the name and the source are
\* given and the amount is there, the run makes its charge call.
C2_OnlyMissingContactInfoAborts ==
    /\ (variant \in DictVariants /\ ~ContactGiven)
          => NoCharge /\ NoSend /\ NoLog
    /\ (Done /\ NeitherContact /\ NameGiven /\ ContactGiven /\ SourceGiven
             /\ AmountGiven)
          => Len(charges) = 1

\* a refactoring_code run of a customer that has only an address was charged
C2_Witness ==
    /\ Done /\ variant = "refactoring_code"
    /\ ContactGiven /\ DOMAIN customer_data["contact_info"] = {"address"}
    /\ Len(charges) = 1

-----------------------------------------------------------------------------
(* C3 *)

\* C3: in every variant, when the charge call fails with a StripeError, no
\* email or SMS send is attempted and nothing is appended to the log.
C3_FailedChargeNoSendNoLog ==
    ChargeFailed => NoSend /\ NoLog

\* a class-based run ended on a StripeError of the gateway
C3_Witness ==
    /\ Done /\ ChargeFailed /\ variant \in ClassVariants
    /\ result = Raise("StripeError")

-----------------------------------------------------------------------------
(* C4 *)

\* what the caller gets from a run of variant v that goes through
SuccessResult(v, ch) ==
    CASE v = "initial_code"     -> Initial_return(ch)
      [] v = "refactoring_code" -> Refactoring_return(ch)
      [] OTHER                  -> ReturnCharge(ch)

\* C4: when the charge call fails, the caller of process_transaction gets an
\* outcome it can tell apart from that of a successful transaction: an
\* exception, or a value that a successful run does not return.
C4_FailureDistinguishable ==
    (Done /\ ChargeFailed)
        => \/ result.kind = "raise"
           \/ \A st \in Statuses :
                 result # SuccessResult(variant, [status |-> st])

-----------------------------------------------------------------------------
(* C5 *)

\* C5: when validation passes and the charge call succeeds,
\* refactoring_code.PaymentService.process_transaction returns the charge of
\* the gateway to its caller, whatever the contact fields are and whether or
\* not the notification send fails (the Twilio client being constructible and
\* the log file writable).
C5_RefactoringReturnsCharge ==
    (Done /\ variant = "refactoring_code" /\ ChargeSucceeded
          /\ ~RaisedAt(twilioOps, "Client") /\ ~Raised(logOps))
        => result = ReturnCharge(charge)

-----------------------------------------------------------------------------
(* C6 *)

\* a call of the mail relay or of the messaging service raised
DeliveryFailed == Raised(smtpOps) \/ Raised(twilioOps)

\* the run appended one record of two lines after what the log held before
AppendedOneRecord ==
    /\ logAppends = 1
    /\ Len(log) = Len(log0) + 2
    /\ SubSeq(log, 1, Len(log0)) = log0

-----------------------------------------------------------------------------
(* C7 *)

-----------------------------------------------------------------------------
(* C8 *)

\* C8: in the dict-based pipelines, after a successful charge, a customer with
\* an email gets exactly one email send and no SMS (a phone being there or
\* not), a customer with a phone and no email gets exactly one SMS send and
\* no email, a customer with neither gets no send; never both.
C8_ChannelByPopulatedField ==
    (Done /\ variant \in DictVariants /\ ChargeSucceeded)
        => /\ Populated("email") => Len(emails) = 1 /\ smss = <<>>
           /\ (Populated("phone") /\ ~Populated("email"))
                 => Len(smss) = 1 /\ emails = <<>>
           /\ NeitherContact => emails = <<>> /\ smss = <<>>
           /\ ~(emails # <<>> /\ smss # <<>>)

-----------------------------------------------------------------------------
(* C9 *)

C9_EndsBeforeLog ==
    \/ /\ variant = "initial_code"
       /\ ~Has(customer_data["contact_info"], "email")
       /\ ~Has(customer_data["contact_info"], "phone")
    \/ variant = "liskov_substitution" /\ DeliveryFailed
    \/ RaisedAt(twilioOps, "Client")
    \/ RaisedAt(logOps, "open")

-----------------------------------------------------------------------------
(* C10 *)

-----------------------------------------------------------------------------
(* C11 *)

\* `earlier` is a prefix of `later`
IsPrefix(earlier, later) ==
    /\ Len(earlier) <= Len(later)
    /\ SubSeq(later, 1, Len(earlier)) = earlier

\* C11: transactions.log is append-only: in every step of every run of
\* every variant the content of the log before the step is a prefix of its
\* content after the step; no step rewrites, truncates or deletes a line.
C11_LogAppendOnly == [][IsPrefix(log, log')]_vars

\* a run has appended its record behind the record of an earlier run
C11_Witness ==
    /\ Done
    /\ log0 # <<>>
    /\ Len(log) = Len(log0) + 2
    /\ logAppends = 1

-----------------------------------------------------------------------------
(* C12 *)

\* the log call w has written its record and closed the file
Closed(w) == writers[w].pc = "closed"

\* the two lines of call w are next to each other in transactions.log
Adjacent(w) ==
    /\ Len(writers[w].at) = 2
    /\ writers[w].at[2] = writers[w].at[1] + 1

\* C12: when log calls of several transactions are in progress side by
\* side, the two lines of each record are next to each other in
\* transactions.log: no line of another record lies between them.
C12_RecordLinesAdjacent ==
    \A w \in Writers : Closed(w) => Adjacent(w)

-----------------------------------------------------------------------------
(* C13 *)

\* What has happened by each position of a run: nothing before the charge
\* step has run; one successful charge and nothing else when the
\* notification step starts; the notification step over and no log call when
\* the log step starts; no send without a successful charge; no log call
\* before the notification step is over.
C13_StepOrder ==
    /\ pc \in {"idle", "validate", "charge", "rejected"}
          => NoCharge /\ NoSend /\ NoLog /\ notified = "not_run"
    /\ pc = "notify"
          => ChargeSucceeded /\ NoSend /\ NoLog /\ notified = "not_run"
    /\ pc = "log"
          => ChargeSucceeded /\ NoLog /\ notified # "not_run"
    /\ ~NoSend => ChargeSucceeded /\ notified # "not_run"
    /\ logOps # <<>> => Done /\ ChargeSucceeded /\ notified # "not_run"
    /\ log # log0 => logOps # <<>>

-----------------------------------------------------------------------------
(* C14 *)

\* C14: every run of process_transaction, in every variant, makes at most
\* one charge call: a failed charge is not retried and a successful charge
\* is not repeated within the run.
C14_AtMostOneCharge == Len(charges) <= 1

\* a run whose only charge call raised StripeError has ended
C14_Witness ==
    /\ Done /\ ChargeFailed
    /\ result.kind \in {"return_None", "raise"}
    /\ NoSend /\ NoLog

-----------------------------------------------------------------------------
(* C15 *)

\* C15: an email send is attempted only to an email address that is set and
\* an SMS send only to a phone number that is set: in no run of any variant
\* does a send helper or a notifier address a message to None or to the
\* empty string.
C15_SendOnlyToSetAddress ==
    /\ \A i \in 1..Len(emails) : Truthy(emails[i])
    /\ \A i \in 1..Len(smss) : Truthy(smss[i])

-----------------------------------------------------------------------------
(* C16 *)

\* C16: no charge call is made with an amount that is not positive or with
\* an empty source: such a payment record is rejected before the gateway is
\* called, in every variant.
C16_NoChargeOfInvalidPayment ==
    \A i \in 1..Len(charges) :
        charges[i].amount > 0 /\ charges[i].source # ""

-----------------------------------------------------------------------------
(* C17 *)

\* C17: when the log file cannot be opened, the caller of
\* process_transaction gets an outcome it can tell apart from that of a
\* fully successful run: an exception, or a value a successful run does not
\* return; in refactoring_code as in the other variants.
C17_LogFailureSurfaced ==
    (Done /\ Raised(logOps))
        => \/ result.kind = "raise"
           \/ result # SuccessResult(variant, charge)

-----------------------------------------------------------------------------
(* C18 *)

\* a call on the SMTP connection, up to sendmail, or the creation of the
\* Twilio message raised
SendRaised ==
    \/ \E op \in {"SMTP", "starttls", "login", "sendmail"} :
          RaisedAt(smtpOps, op)
    \/ RaisedAt(twilioOps, "create")

\* C18: in liskov_substitution, when the delivery fails (the SMTP
\* connection, starttls, login or sendmail raises, or the Twilio message
\* creation raises), send_confirmation of EmailNotifier and of SMSNotifier
\* raises to its caller; it never returns normally, so the statement after
\* the notifier call is never reached.
C18_LiskovNotifiersRaise ==
    (variant = "liskov_substitution" /\ SendRaised)
        => /\ notified = "raised"
           /\ pc = "done"
           /\ result = Raise("Exception")
           /\ logOps = <<>>

\* the SMSNotifier of a liskov_substitution run failed to create its message
C18_Witness ==
    /\ variant = "liskov_substitution" /\ notifier = "SMSNotifier"
    /\ RaisedAt(twilioOps, "create")
    /\ notified = "raised"

-----------------------------------------------------------------------------
(* C19 *)

\* C19: in open_close, when the message cannot be sent (a call on the SMTP
\* connection up to sendmail raises, or the Twilio message creation
\* raises), send_confirmation of EmailNotifier and of SMSNotifier raises to
\* its caller, as the docstrings say.
C19_OpenCloseNotifiersRaise ==
    (variant = "open_close" /\ SendRaised)
        => /\ notified = "raised"
           /\ pc = "done"
           /\ result.kind = "raise"

-----------------------------------------------------------------------------
(* C20 *)

\* the request fails one of the three checks of initial_code
Initial_invalid ==
    \/ ~GetTruthy(customer_data, "name")
    \/ ~GetDictTruthy(customer_data, "contact_info")
    \/ ~GetTruthy(payment_data, "source")

\* C20: process_transaction of initial_code returns None on each of these
\* paths: a failed validation, a failed charge, a successful charge with the
\* email or the SMS sent, a successful charge whose email or SMS delivery
\* failed, and a contact_info with neither email nor phone (on the paths
\* that reach it, the log file being writable).
C20_InitialReturnsNone ==
    (Done /\ variant = "initial_code")
        => /\ Initial_invalid => result = ReturnNone
           /\ ChargeFailed => result = ReturnNone
           /\ (ChargeSucceeded /\ notified = "sent" /\ ~Raised(logOps))
                 => result = ReturnNone
           /\ (ChargeSucceeded /\ notified = "failed" /\ ~Raised(logOps))
                 => result = ReturnNone
           /\ (ChargeSucceeded /\ notified = "no_contact")
                 => result = ReturnNone

\* an initial_code run was charged, sent its SMS, wrote its record and
\* returned None
C20_Witness ==
    /\ Done /\ variant = "initial_code" /\ ChargeSucceeded
    /\ Len(smss) = 1 /\ notified = "sent"
    /\ AppendedOneRecord
    /\ result = ReturnNone

-----------------------------------------------------------------------------
(* C21 *)

\* one of the four required fields is missing from the records handed to
\* the constructors
FieldMissing ==
    \/ ~Has(customer_data, "name")
    \/ ~Has(customer_data, "contact_info")
    \/ ~Has(payment_data, "amount")
    \/ ~Has(payment_data, "source")

\* C21: in open_close and liskov_substitution, building CustomerData
\* without name or contact_info, or PaymentData without amount or source,
\* fails, and process_transaction is not entered: nothing is charged, sent
\* or logged.  Nothing else makes the construction fail: a ContactInfo with
\* neither email nor phone is built, both fields being None, and the run is
\* entered.
C21_MissingFieldStopsConstruction ==
    variant \in ClassVariants =>
        IF pc = "rejected"
          THEN FieldMissing /\ NoCharge /\ NoSend /\ NoLog
                 /\ result = Pending
          ELSE /\ ~FieldMissing
               /\ DOMAIN customer_data["contact_info"] = {"email", "phone"}

\* the construction of a CustomerData without name has failed
C21_Witness ==
    /\ variant \in ClassVariants /\ pc = "rejected"
    /\ ~Has(customer_data, "name")
    /\ Has(customer_data, "contact_info")
    /\ Has(payment_data, "amount") /\ Has(payment_data, "source")

-----------------------------------------------------------------------------
(* C22 *)

\* the records of the current run pass validation (dict variants) or were
\* built (class variants)
ValidRecords ==
    \/ /\ variant \in DictVariants
       /\ ~Initial_invalid
       /\ Has(payment_data, "amount")
    \/ variant \in ClassVariants /\ pc # "rejected"

\* the record the log function of the current variant writes for this run
ThisRecord == LogLines(variant, customer_data, payment_data, charge)

\* an earlier run has already written the record of this run: it was run
\* with the same name and amount and the gateway gave the same status
SameRecordBefore ==
    /\ Len(log0) >= 2
    /\ SubSeq(log0, Len(log0) - 1, Len(log0)) = ThisRecord

\* C22: the pipeline is not idempotent: a run with valid records makes its
\* charge call whatever earlier runs did, and when the gateway succeeds it
\* appends its record also when an earlier run of the same records already
\* appended the same record; the log then holds the record twice.
C22_SecondRunChargesAndLogsAgain ==
    (Done /\ ValidRecords)
        => /\ Len(charges) = 1
           /\ (ChargeSucceeded /\ SameRecordBefore /\ ~C9_EndsBeforeLog)
                 => /\ log = log0 \o ThisRecord
                    /\ logAppends = 1

\* the second run of the same records has charged and the log holds the
\* same record twice
C22_Witness ==
    /\ Done /\ runs = 2 /\ ValidRecords /\ ChargeSucceeded
    /\ Len(charges) = 1
    /\ log = ThisRecord \o ThisRecord

-----------------------------------------------------------------------------
(* C23 *)

\* the calls of ops, in order
Calls(ops) == [i \in 1..Len(ops) |-> ops[i][1]]

\* C23: an email notification that succeeds has made, in this order and
\* each once, the calls SMTP (open the connection), starttls, login,
\* sendmail, quit, each after the one before it has returned; and at any
\* moment the calls made on the connection are the first ones of that
\* order, none of them made after a call that raised.
C23_SmtpStepsInOrder ==
    /\ (emails # <<>> /\ notified = "sent")
          => smtpOps = << <<"SMTP", "ok">>, <<"starttls", "ok">>,
                          <<"login", "ok">>, <<"sendmail", "ok">>,
                          <<"quit", "ok">> >>
    /\ Len(smtpOps) <= 5
    /\ Calls(smtpOps) =
          SubSeq(<<"SMTP", "starttls", "login", "sendmail", "quit">>,
                 1, Len(smtpOps))
    /\ \A i \in 1..Len(smtpOps) - 1 : smtpOps[i][2] = "ok"

\* an email was sent by a refactoring_code run
C23_Witness ==
    /\ variant = "refactoring_code"
    /\ Len(emails) = 1 /\ notified = "sent"
    /\ Len(smtpOps) = 5 /\ ~Raised(smtpOps)

-----------------------------------------------------------------------------
(* C24 *)

\* two runs got the same answers from a service wherever both called it
Agree(ops1, ops2) == ops1 = <<>> \/ ops2 = <<>> \/ ops1 = ops2

\* the gateway, the mail relay, the messaging service and the log file
\* behaved in this run as in the first one
SameEnvironment ==
    /\ (charges # <<>> /\ firstRun.charges # <<>>) => charge = firstRun.charge
    /\ Agree(smtpOps, firstRun.smtpOps)
    /\ Agree(twilioOps, firstRun.twilioOps)
    /\ Agree(logOps, firstRun.logOps)

\* C24: refactoring_code.PaymentService.process_transaction does what
\* initial_code.PaymentProcessor.process_transaction does: on the same
\* customer and payment records and the same behaviour of the gateway and
\* of the channels, the same charge calls, the same email sends, the same
\* SMS sends and the same number of log appends.
C24_RefactoringEquivalentToInitial ==
    (Done /\ variant = "refactoring_code" /\ firstRun.variant = "initial_code"
          /\ SameEnvironment)
        => /\ charges = firstRun.charges
           /\ emails = firstRun.emails
           /\ smss = firstRun.smss
           /\ logAppends = firstRun.logAppends

-----------------------------------------------------------------------------
(* C25 *)

\* the k-th record of transactions.log: its lines 2k-1 and 2k
Record(k) == <<log[2 * k - 1], log[2 * k]>>

\* the log calls made so far, each made for one successful charge
LogCallsMade == {w \in Writers : writers[w].pc # "idle"}

\* C25: in every state, also while log calls of several runs are in
\* progress side by side, transactions.log holds at most as many records as
\* there were successful charges, and every record is the "paid" line and
\* the status line of one and the same transaction.
C25_RecordsOfOneTransaction ==
    /\ Len(log) \div 2 <= Cardinality(LogCallsMade)
    /\ \A k \in 1..(Len(log) \div 2) :
          \E w \in LogCallsMade : writers[w].lines = Record(k)

-----------------------------------------------------------------------------
(* C26 *)

\* `op` was called on the service
Called(ops, op) == \E i \in 1..Len(ops) : ops[i][1] = op

\* C26: once the notification step is over, an SMTP connection that was
\* opened has had quit called on it, also when starttls, login or sendmail
\* raised: no run leaves an opened connection without a quit.
C26_OpenedConnectionIsQuit ==
    (notified # "not_run" /\ <<"SMTP", "ok">> \in {smtpOps[i] : i \in 1..Len(smtpOps)})
        => Called(smtpOps, "quit")

-----------------------------------------------------------------------------
(* C27 *)

\* C27: in initial_code and refactoring_code a failure at any point of the
\* email or SMS helper, the construction of the Twilio client included, is
\* caught inside the helper: after a successful charge it neither reaches
\* the caller nor keeps the record from being appended (the log file being
\* writable).
C27_HelperFailureContained ==
    (Done /\ variant \in DictVariants /\ ChargeSucceeded /\ DeliveryFailed
          /\ ~Raised(logOps))
        => /\ result.kind # "raise"
           /\ notified = "failed"
           /\ AppendedOneRecord

-----------------------------------------------------------------------------
(* C28 *)

\* the service with the SMSNotifier has ended on the records, the gateway
\* outcome, the notifier outcome (delivered or failed) and the log file
\* outcome of the service with the EmailNotifier
SameRunWithSMSNotifier ==
    /\ Done /\ variant = "liskov_substitution" /\ notifier = "SMSNotifier"
    /\ firstRun.variant = "liskov_substitution"
    /\ firstRun.notifier = "EmailNotifier"
    /\ charge = firstRun.charge
    /\ Raised(twilioOps) <=> Raised(firstRun.smtpOps)
    /\ Agree(logOps, firstRun.logOps)

\* C28: in liskov_substitution the two notifiers can stand for each other
\* in PaymentService: on the same records, the same gateway outcome and the
\* same notifier outcome (delivered or failed), the service with an
\* SMSNotifier makes the same charge call, appends the same number of
\* records and gives its caller the same result (the charge, or the
\* exception) as the service with an EmailNotifier.
C28_NotifiersSubstitutable ==
    SameRunWithSMSNotifier
        => /\ charges = firstRun.charges
           /\ logAppends = firstRun.logAppends
           /\ result = firstRun.result

\* both services were run on the same records and both notifiers failed:
\* sendmail raised in the first, the message creation in the second
C28_Witness ==
    /\ SameRunWithSMSNotifier
    /\ ChargeSucceeded
    /\ RaisedAt(firstRun.smtpOps, "sendmail")
    /\ RaisedAt(twilioOps, "create")
    /\ result = Raise("Exception")

-----------------------------------------------------------------------------
(* C29 *)

\* the field whose check fails first in the order name, contact_info, source
FirstInvalidField ==
    IF ~GetTruthy(customer_data, "name") THEN "name"
    ELSE IF ~GetDictTruthy(customer_data, "contact_info") THEN "contact_info"
    ELSE "source"

\* what each dict variant prints for a failed check of field k
ValidationMessage(v, k) ==
    IF v = "initial_code"
      THEN CASE k = "name" -> "Invalid customer data: missing name"
             [] k = "contact_info" -> "Invalid customer data: missing contact info"
             [] k = "source" -> "Invalid payment data"
      ELSE "Transaction processing failed: " \o
           (CASE k = "name" -> "Customer data validation failed: Missing name."
              [] k = "contact_info" ->
                     "Customer data validation failed: Missing contact info."
              [] k = "source" -> "Payment data validation failed: Missing source.")

\* C29: in initial_code and refactoring_code the checks run in the order
\* name, contact_info, source and the run stops at the first one that fails:
\* whatever else is invalid, the one failure reported is that of the
\* earliest invalid field, and nothing is charged.
C29_FirstInvalidFieldReported ==
    (Done /\ variant \in DictVariants /\ Initial_invalid)
        => /\ printed = <<ValidationMessage(variant, FirstInvalidField)>>
           /\ result = ReturnNone
           /\ NoCharge

\* a refactoring_code run of a record without name and without source has
\* reported the name
C29_Witness ==
    /\ Done /\ variant = "refactoring_code"
    /\ ~GetTruthy(customer_data, "name")
    /\ GetDictTruthy(customer_data, "contact_info")
    /\ ~GetTruthy(payment_data, "source")
    /\ printed = <<"Transaction processing failed: Customer data validation failed: Missing name.">>

====
